---- MODULE Spec2Model ----
(***************************************************************************)
(* audio-buffer-utils (src/index.js): operations over a multi-channel      *)
(* audio buffer.  A buffer is a record                                      *)
(*   [numberOfChannels, length, sampleRate, data]                           *)
(* where data[c + 1][i + 1] is the sample of channel c at index i           *)
(* (JavaScript indices are 0-based, TLA+ sequences 1-based).                *)
(*                                                                          *)
(* Samples are small integers, all exactly representable in a Float32Array, *)
(* so storing one in a channel array and reading it back changes nothing.   *)
(* The value a Float32Array holds after `undefined` is stored in it is NaN. *)
(***************************************************************************)
EXTENDS Integers, Sequences, FiniteSets, TLC

\* ------------------------------------------------------------------ bounds

\* Longest channel of an input buffer.
MaxLen == 3

\* Offsets passed to rotate and shift range over -MaxOffset..MaxOffset, so
\* they reach beyond the channel length on both sides.
MaxOffset == 4

\* Sample values of the input buffers.
Samples == {0, 1}

\* Channel counts of the input buffers (mono, stereo).
ChannelCounts == {1, 2}

\* Sample rates of the input buffers.
SampleRates == {22050, 44100}

\* What `new AudioBuffer(length)` (src/index.js:202) leaves to the
\* audio-buffer package: AudioBuffer.prototype.numberOfChannels and
\* AudioBuffer.prototype.sampleRate.
DefaultNumberOfChannels == 2
DefaultSampleRate == 44100

\* The sample a Float32Array holds after `undefined` was stored in it.
NaN == -99

\* The value of reading an array outside 0..length-1.
Undefined == -98

\* ------------------------------------------------------------- JavaScript

Max(a, b) == IF a >= b THEN a ELSE b

\* a % b of JavaScript: the remainder takes the sign of the dividend.
JsRem(a, b) == IF a >= 0 THEN a % b ELSE -((-a) % b)

\* data[idx] read: undefined outside the array.
At(data, idx) == IF idx >= 0 /\ idx < Len(data) THEN data[idx + 1] ELSE Undefined

\* data[idx] = v on a channel array: a write outside 0..length-1 changes no
\* element, and `undefined` is stored as NaN.
Put(data, idx, v) ==
    IF idx >= 0 /\ idx < Len(data)
    THEN [data EXCEPT ![idx + 1] = IF v = Undefined THEN NaN ELSE v]
    ELSE data

\* x || 0 on a sample: 0, NaN and undefined are falsy.
OrZero(x) == IF x = 0 \/ x = NaN \/ x = Undefined THEN 0 ELSE x

\* Array.prototype.slice(start, end) for 0 <= start, end.
ArraySlice(data, start, end) ==
    LET e == IF end > Len(data) THEN Len(data) ELSE end
        s == IF start > Len(data) THEN Len(data) ELSE start
    IN  IF e <= s THEN <<>> ELSE SubSeq(data, s + 1, e)

\* new Float32Array(length): all zero.
Zeros(length) == [k \in 1..length |-> 0]

\* TypedArray.prototype.set(source, offset).
ArraySet(target, source, offset) ==
    [k \in 1..Len(target) |->
        IF k - 1 >= offset /\ k - 1 < offset + Len(source)
        THEN source[k - offset] ELSE target[k]]

\* ------------------------------------------------------------ AudioBuffer

\* new AudioBuffer(channels, data, sampleRate): channel c holds data[c].
AudioBufferFromData(channels, data, sampleRate) ==
    [numberOfChannels |-> channels,
     length |-> IF Len(data) > 0 THEN Len(data[1]) ELSE 0,
     sampleRate |-> sampleRate,
     data |-> data]

\* new AudioBuffer(length): the channel count and the sample rate are not
\* passed, the package's defaults apply; the channels are zero-filled.
AudioBufferOfLength(length) ==
    [numberOfChannels |-> DefaultNumberOfChannels,
     length |-> length,
     sampleRate |-> DefaultSampleRate,
     data |-> [c \in 1..DefaultNumberOfChannels |-> Zeros(length)]]

\* buffer.getChannelData(channel).
GetChannelData(buffer, channel) == buffer.data[channel + 1]

\* The buffer with channel `channel` replaced by cData (a write through the
\* live view getChannelData returns).
WithChannelData(buffer, channel, cData) ==
    [buffer EXCEPT !.data[channel + 1] = cData]

\* The input buffers with a channel count of `counts` and at most maxLen
\* samples per channel.
BuffersOf(counts, maxLen) ==
    UNION { UNION { { [numberOfChannels |-> c, length |-> l, sampleRate |-> r,
                       data |-> d] :
                      d \in [1..c -> [1..l -> Samples]], r \in SampleRates } :
                    l \in 0..maxLen } :
            c \in counts }

\* The buffers of the documented examples: [1, 2, 3, 4], [1, 2] and
\* [3, 4, 5], each mono at 44100 Hz.
Mono(samples) ==
    [numberOfChannels |-> 1, length |-> Len(samples), sampleRate |-> 44100,
     data |-> <<samples>>]

ExampleBuffers == {Mono(<<1, 2, 3, 4>>), Mono(<<1, 2>>), Mono(<<3, 4, 5>>)}

Buffers == BuffersOf(ChannelCounts, MaxLen) \cup ExampleBuffers

\* ------------------------------------------------------------------ clone

\* clone(inBuffer): new AudioBuffer(inBuffer), a deep copy.
clone(inBuffer) ==
    [numberOfChannels |-> inBuffer.numberOfChannels,
     length |-> inBuffer.length,
     sampleRate |-> inBuffer.sampleRate,
     data |-> [c \in 1..inBuffer.numberOfChannels |->
                 [k \in 1..Len(inBuffer.data[c]) |-> inBuffer.data[c][k]]]]

\* ------------------------------------------------------------------ equal

\* A plausible slip in equal's first test: the channel counts are not
\* compared.
lengthDiffers(bufferA, bufferB) == bufferA.length # bufferB.length

\* equal's first test: the lengths or the channel counts differ.
shapeDiffers(bufferA, bufferB) ==
    bufferA.length # bufferB.length
        \/ bufferA.numberOfChannels # bufferB.numberOfChannels

\* equal(bufferA, bufferB) called with two arguments.
equalPair(bufferA, bufferB) ==
    IF shapeDiffers(bufferA, bufferB)
    THEN FALSE
    ELSE \A channel \in 0..(bufferA.numberOfChannels - 1) :
            LET dataA == GetChannelData(bufferA, channel)
                dataB == GetChannelData(bufferB, channel)
            IN  \A i \in 0..(Len(dataA) - 1) : ~(At(dataA, i) # At(dataB, i))

\* equal(...arguments): more than two arguments are compared pair by pair.
equal(arguments) ==
    IF Len(arguments) > 2
    THEN \A i \in 0..(Len(arguments) - 2) :
            equalPair(arguments[i + 1], arguments[i + 2])
    ELSE equalPair(arguments[1], arguments[2])

\* ------------------------------------------------------------------ slice

\* slice(buffer, start, end).
slice(buffer, start, end) ==
    AudioBufferFromData(
        buffer.numberOfChannels,
        [c \in 1..buffer.numberOfChannels |->
            ArraySlice(GetChannelData(buffer, c - 1), start, end)],
        buffer.sampleRate)

\* ----------------------------------------------------------------- concat

\* A plausible slip in concat: bufferB's samples are written at bufferB's
\* own length instead of after bufferA's.
concatOffsetOfSecond(bufferA, bufferB) == bufferB.length

\* Where concat writes bufferB's samples in a channel of the result.
concatOffset(bufferA, bufferB) == bufferA.length

\* concat(bufferA, bufferB) called with two arguments.
concatPair(bufferA, bufferB) ==
    LET channels == Max(bufferA.numberOfChannels, bufferB.numberOfChannels)
        length == bufferA.length + bufferB.length
        sampleRate == Max(bufferA.sampleRate, bufferB.sampleRate)
        channelData(channel) ==
            LET fresh == Zeros(length)
                withA == IF channel < bufferA.numberOfChannels
                         THEN ArraySet(fresh, GetChannelData(bufferA, channel), 0)
                         ELSE fresh
            IN  IF channel < bufferB.numberOfChannels
                THEN ArraySet(withA, GetChannelData(bufferB, channel),
                              concatOffset(bufferA, bufferB))
                ELSE withA
    IN  AudioBufferFromData(channels,
                            [c \in 1..channels |-> channelData(c - 1)],
                            sampleRate)

\* The loop of concat over arguments[i], i = 1, 2, ...: result is the
\* concatenation so far.
RECURSIVE concatLoop(_, _, _)
concatLoop(result, arguments, i) ==
    IF i < Len(arguments)
    THEN concatLoop(concatPair(result, arguments[i + 1]), arguments, i + 1)
    ELSE result

\* concat(...arguments).
concat(arguments) ==
    IF Len(arguments) > 2
    THEN concatLoop(arguments[1], arguments, 1)
    ELSE concatPair(arguments[1], arguments[2])

\* ----------------------------------------------------------------- resize

\* resize(buffer, length).
resize(buffer, length) ==
    IF length < buffer.length
    THEN slice(buffer, 0, length)
    ELSE concat(<<buffer, AudioBufferOfLength(length - buffer.length)>>)

\* ----------------------------------------------------------------- rotate

\* The destination index rotate computes for source index i.
rotateIdx(offset, i, l) ==
    JsRem(offset + (IF offset + i < 0 THEN l + i ELSE i), l)

\* The inner loop of rotate from index i on: cData is the live channel,
\* srcData the copy taken before the loop.
RECURSIVE rotateLoop(_, _, _, _)
rotateLoop(cData, srcData, offset, i) ==
    IF i < Len(cData)
    THEN rotateLoop(Put(cData, rotateIdx(offset, i, Len(cData)), At(srcData, i)),
                    srcData, offset, i + 1)
    ELSE cData

\* rotate(buffer, offset).
rotate(buffer, offset) ==
    [buffer EXCEPT !.data =
        [c \in 1..buffer.numberOfChannels |->
            rotateLoop(buffer.data[c], buffer.data[c], offset, 0)]]

\* ------------------------------------------------------------------- fill

\* The producers passed to fill and map.  A producer is called as
\* fn.call(buffer, value, channel, i, data).
\*   flip:  1 - value                       (of the value alone)
\*   index: (channel + i) % 2               (of the position alone)
\*   prev:  data[i - 1], or value at i = 0  (reads the array it is given)
\*   next:  data[i + 1], or value at the end
PureProducers == {"flip", "index"}
ArrayProducers == {"prev", "next"}

Apply(name, value, channel, i, data) ==
    CASE name = "flip" -> 1 - value
      [] name = "index" -> (channel + i) % 2
      [] name = "prev" -> IF i > 0 THEN At(data, i - 1) ELSE value
      [] name = "next" -> IF i + 1 < Len(data) THEN At(data, i + 1) ELSE value

Callable(name) == [isFn |-> TRUE, name |-> name, value |-> 0]
Constant(value) == [isFn |-> FALSE, name |-> "", value |-> value]
NoFn == Constant(0)

\* The second arguments fill is called with.
FillArguments ==
    {Callable(n) : n \in PureProducers \cup ArrayProducers}
        \cup {Constant(v) : v \in Samples}

\* fill's loop over i with a callable fn, from index i on.  `calls` is the
\* record of the calls of fn made so far, in order, each with the arguments
\* it was passed.
RECURSIVE fillFnLoopStale(_, _, _, _, _, _)
\* A plausible slip in fill: the producer is handed the sample of index 0
\* at every index (a stale read) instead of the one stored at i.
fillFnLoopStale(data, l, name, channel, i, calls) ==
    IF i < l
    THEN fillFnLoopStale(Put(data, i, Apply(name, At(data, 0), channel, i, data)),
                         l, name, channel, i + 1,
                         Append(calls, [value |-> At(data, 0), channel |-> channel,
                                        i |-> i, data |-> data]))
    ELSE [data |-> data, calls |-> calls]

RECURSIVE fillFnLoop(_, _, _, _, _, _)
fillFnLoop(data, l, name, channel, i, calls) ==
    IF i < l
    THEN fillFnLoop(Put(data, i, Apply(name, At(data, i), channel, i, data)),
                    l, name, channel, i + 1,
                    Append(calls, [value |-> At(data, i), channel |-> channel,
                                   i |-> i, data |-> data]))
    ELSE [data |-> data, calls |-> calls]

\* while (l--) data[l] = fn.
RECURSIVE fillConstantLoop(_, _, _)
fillConstantLoop(data, l, value) ==
    IF l # 0
    THEN fillConstantLoop(Put(data, l - 1, value), l - 1, value)
    ELSE data

\* fill's loop over the channels, from `channel` on.
RECURSIVE fillChannels(_, _, _, _)
fillChannels(buffer, fn, channel, calls) ==
    IF channel < buffer.numberOfChannels
    THEN LET data == GetChannelData(buffer, channel)
             l == buffer.length
         IN  IF fn.isFn
             THEN LET done == fillFnLoop(data, l, fn.name, channel, 0, calls)
                  IN  fillChannels(WithChannelData(buffer, channel, done.data),
                                   fn, channel + 1, done.calls)
             ELSE fillChannels(
                      WithChannelData(buffer, channel,
                                      fillConstantLoop(data, l, fn.value)),
                      fn, channel + 1, calls)
    ELSE [buffer |-> buffer, calls |-> calls]

\* fill(buffer, fn): the buffer as fill leaves (and returns) it, with the
\* calls of fn it made.
fillRun(buffer, fn) == fillChannels(buffer, fn, 0, <<>>)

fill(buffer, fn) == fillRun(buffer, fn).buffer

\* -------------------------------------------------------------------- map

\* Array.prototype.map over one channel from index idx on; `data` is the
\* list of the channels map has finished, which fn is passed.
RECURSIVE mapChannelFirst(_, _, _, _, _, _)
\* A plausible slip in map: the producer is told channel 0 for every
\* channel.
mapChannelFirst(source, name, channel, idx, data, mapped) ==
    IF idx < Len(source)
    THEN mapChannelFirst(source, name, channel, idx + 1, data,
                         Append(mapped, Apply(name, At(source, idx), 0, idx, data)))
    ELSE mapped

RECURSIVE mapChannel(_, _, _, _, _, _)
mapChannel(source, name, channel, idx, data, mapped) ==
    IF idx < Len(source)
    THEN mapChannel(source, name, channel, idx + 1, data,
                    Append(mapped, Apply(name, At(source, idx), channel, idx, data)))
    ELSE mapped

\* map's loop over the channels, from `channel` on.
RECURSIVE mapChannels(_, _, _, _)
mapChannels(buffer, name, channel, data) ==
    IF channel < buffer.numberOfChannels
    THEN mapChannels(buffer, name, channel + 1,
                     Append(data, mapChannel(GetChannelData(buffer, channel),
                                             name, channel, 0, data, <<>>)))
    ELSE data

\* map(buffer, fn).
map(buffer, name) ==
    AudioBufferFromData(buffer.numberOfChannels,
                        mapChannels(buffer, name, 0, <<>>),
                        buffer.sampleRate)

\* ------------------------------------------------------------------ shift

\* Where a JavaScript number stops decrementing: -2^53 - 1 rounds back to
\* -2^53.  The model puts that floor below every index the loops address.
MinInteger == -(MaxLen + MaxOffset + 2)

Decrement(i) == IF i - 1 < MinInteger THEN MinInteger ELSE i - 1

\* A plausible slip in shift: the downward loop starts one sample short.
shiftInitShort(cData, offset) ==
    IF offset > 0 THEN Len(cData) - offset - 1 ELSE -offset

\* The initialiser of shift's loop over one channel: var i = ...
shiftInit(cData, offset) ==
    IF offset > 0 THEN Len(cData) - offset ELSE -offset

\* The loop's test: `i--` (true unless i is 0) when offset > 0, and
\* `i < l` with l = cData.length - offset otherwise.
shiftTest(cData, offset, i) ==
    IF offset > 0 THEN i # 0 ELSE i < Len(cData) - offset

\* One pass of the loop whose test held at i: the channel and i after it.
\* With offset > 0 the test has already decremented i when the body runs.
shiftPass(cData, offset, i) ==
    IF offset > 0
    THEN LET j == Decrement(i)
         IN  [cData |-> Put(cData, j + offset, At(cData, j)), i |-> j]
    ELSE [cData |-> Put(cData, i + offset, OrZero(At(cData, i))), i |-> i + 1]

\* ---------------------------------------------------------- the program

VARIABLES
    buffer,    \* the caller's buffer, which the in-place operations mutate
    call,      \* the call in progress or last made: its name and arguments,
               \* with `before`, the buffer as it was when the call was made
    result,    \* the buffer the last call returned
    same,      \* what the last call of equal returned
    calls,     \* the calls of the producer made by the last fill, in order
    pc,        \* "ready" before the call, "returned" after it, or the place
               \* shift has reached
    channel,   \* shift's loop variable over the channels
    i          \* shift's loop variable over the samples

vars == <<buffer, call, result, same, calls, pc, channel, i>>

\* No buffer: the value of `result` while a call has not returned.
NoBuffer == [numberOfChannels |-> 0, length |-> 0, sampleRate |-> 0, data |-> <<>>]

Offsets == (-MaxOffset)..MaxOffset

Called(op, offset, length, fn, arguments) ==
    [op |-> op, before |-> buffer, offset |-> offset, length |-> length,
     fn |-> fn, arguments |-> arguments]

\* The argument lists of concat and equal whose first argument is `first`:
\* any second buffer, and any second and third within MaxLen samples in all.
ArgumentLists(first) ==
    { <<first, b>> : b \in Buffers }
    \cup UNION { { <<first, b, c>> :
                    c \in BuffersOf(ChannelCounts, MaxLen - first.length - b.length) } :
                  b \in BuffersOf(ChannelCounts, MaxLen - first.length) }

InitOf(buffers) ==
    /\ buffer \in buffers
    /\ call = [op |-> "none", before |-> NoBuffer, offset |-> 0, length |-> 0,
               fn |-> NoFn, arguments |-> <<>>]
    /\ result = NoBuffer
    /\ same = FALSE
    /\ calls = <<>>
    /\ pc = "ready"
    /\ channel = 0
    /\ i = 0

\* The library keeps no state between calls: every behaviour is one call,
\* made on any of the input buffers.
Init == InitOf(Buffers)

\* An operation that runs to completion in one step, leaving the caller's
\* buffer as `after` and returning `returned`.
Returns(after, returned) ==
    /\ buffer' = after
    /\ result' = returned
    /\ pc' = "returned"
    /\ UNCHANGED <<channel, i>>

\* rotate(buffer, offset): in place, returns the buffer.
Rotate ==
    /\ pc = "ready"
    /\ \E offset \in Offsets :
       /\ call' = Called("rotate", offset, 0, NoFn, <<>>)
       /\ Returns(rotate(buffer, offset), rotate(buffer, offset))
       /\ same' = FALSE
       /\ calls' = <<>>

\* rotate(rotate(clone(buffer), offset), -offset): the caller's buffer is
\* left alone, the clone is rotated there and back.
RotateBack ==
    /\ pc = "ready"
    /\ \E offset \in Offsets :
       /\ call' = Called("rotateBack", offset, 0, NoFn, <<>>)
       /\ Returns(buffer, rotate(rotate(clone(buffer), offset), -offset))
       /\ same' = equal(<<rotate(rotate(clone(buffer), offset), -offset), buffer>>)
       /\ calls' = <<>>

\* resize(buffer, length).
Resize ==
    /\ pc = "ready"
    /\ \E length \in 0..(MaxLen + 1) :
       /\ call' = Called("resize", 0, length, NoFn, <<>>)
       /\ Returns(buffer, resize(buffer, length))
       /\ same' = FALSE
       /\ calls' = <<>>

\* slice(buffer, 0, end).
Slice ==
    /\ pc = "ready"
    /\ \E end \in 0..(MaxLen + 1) :
       /\ call' = Called("slice", 0, end, NoFn, <<>>)
       /\ Returns(buffer, slice(buffer, 0, end))
       /\ same' = FALSE
       /\ calls' = <<>>

\* map(buffer, fn) with a producer of (value, channel, index).
Map ==
    /\ pc = "ready"
    /\ \E name \in PureProducers :
       /\ call' = Called("map", 0, 0, Callable(name), <<>>)
       /\ Returns(buffer, map(buffer, name))
       /\ same' = FALSE
       /\ calls' = <<>>

\* fill(buffer, fn): in place, returns the buffer.
Fill ==
    /\ pc = "ready"
    /\ \E fn \in FillArguments :
       /\ call' = Called("fill", 0, 0, fn, <<>>)
       /\ Returns(fillRun(buffer, fn).buffer, fillRun(buffer, fn).buffer)
       /\ same' = FALSE
       /\ calls' = fillRun(buffer, fn).calls

\* concat(buffer, ...).
Concat ==
    /\ pc = "ready"
    /\ \E arguments \in ArgumentLists(buffer) :
       /\ call' = Called("concat", 0, 0, NoFn, arguments)
       /\ Returns(buffer, concat(arguments))
       /\ same' = FALSE
       /\ calls' = <<>>

\* equal(buffer, ...).
Equal ==
    /\ pc = "ready"
    /\ \E arguments \in ArgumentLists(buffer) :
       /\ call' = Called("equal", 0, 0, NoFn, arguments)
       /\ Returns(buffer, NoBuffer)
       /\ same' = equal(arguments)
       /\ calls' = <<>>

\* shift(buffer, offset) is called: the loop over the channels starts.
Shift ==
    /\ pc = "ready"
    /\ \E offset \in Offsets :
       /\ call' = Called("shift", offset, 0, NoFn, <<>>)
       /\ pc' = "channels"
       /\ channel' = 0
       /\ i' = 0
       /\ result' = NoBuffer
       /\ same' = FALSE
       /\ calls' = <<>>
       /\ UNCHANGED buffer

\* channel < buffer.numberOfChannels: the loop over the samples starts.
ShiftChannel ==
    /\ pc = "channels"
    /\ channel < buffer.numberOfChannels
    /\ i' = shiftInit(GetChannelData(buffer, channel), call.offset)
    /\ pc' = "samples"
    /\ UNCHANGED <<buffer, call, result, same, calls, channel>>

\* The test of the loop over the samples holds: one pass.
ShiftPass ==
    /\ pc = "samples"
    /\ shiftTest(GetChannelData(buffer, channel), call.offset, i)
    /\ LET pass == shiftPass(GetChannelData(buffer, channel), call.offset, i)
       IN  /\ buffer' = WithChannelData(buffer, channel, pass.cData)
           /\ i' = pass.i
    /\ UNCHANGED <<call, result, same, calls, pc, channel>>

\* The test fails: on to the next channel.
ShiftNextChannel ==
    /\ pc = "samples"
    /\ ~shiftTest(GetChannelData(buffer, channel), call.offset, i)
    /\ channel' = channel + 1
    /\ pc' = "channels"
    /\ UNCHANGED <<buffer, call, result, same, calls, i>>

\* All channels done: return buffer.
ShiftReturn ==
    /\ pc = "channels"
    /\ ~(channel < buffer.numberOfChannels)
    /\ result' = buffer
    /\ pc' = "returned"
    /\ UNCHANGED <<buffer, call, same, calls, channel, i>>

Next ==
    \/ Rotate
    \/ RotateBack
    \/ Resize
    \/ Slice
    \/ Map
    \/ Fill
    \/ Concat
    \/ Equal
    \/ Shift
    \/ ShiftChannel
    \/ ShiftPass
    \/ ShiftNextChannel
    \/ ShiftReturn

Spec == Init /\ [][Next]_vars

\* fill alone, also on buffers with no channel at all.
FillInit == InitOf(BuffersOf({0} \cup ChannelCounts, MaxLen))

FillSpec == FillInit /\ [][Fill]_vars

\* The steps of a call of shift that is under way.
ShiftStep == ShiftChannel \/ ShiftPass \/ ShiftNextChannel \/ ShiftReturn

\* shift alone.  A call is synchronous: once made it keeps running, so a
\* step of it that can be taken is taken.
ShiftSpec == Init /\ [][Shift \/ ShiftStep]_vars /\ WF_vars(ShiftStep)

\* ----------------------------------------------------------- properties

Returned(op) == pc = "returned" /\ call.op = op

\* The sample of channel c at index idx.
Sample(b, c, idx) == b.data[c + 1][idx + 1]

ChannelsOf(b) == 0..(b.numberOfChannels - 1)
IndicesOf(b) == 0..(b.length - 1)

SameShape(a, b) ==
    /\ a.numberOfChannels = b.numberOfChannels
    /\ a.length = b.length
    /\ \A c \in ChannelsOf(a) : Len(a.data[c + 1]) = Len(b.data[c + 1])

\* C1: for a non-empty buffer b and any offset k, rotate(rotate(clone(b), k), -k)
\* has the samples of b in every channel, and equal says so.
RotateBackRestores ==
    (Returned("rotateBack") /\ call.before.length > 0)
        => (same /\ result.data = call.before.data)

\* C2: rotate moves the sample at index i of every channel to index
\* (i + offset) mod l, the non-negative residue, whatever the offset.
RotateMovesSamples ==
    Returned("rotate") =>
        /\ SameShape(buffer, call.before)
        /\ \A c \in ChannelsOf(buffer) : \A idx \in IndicesOf(buffer) :
              Sample(buffer, c, (idx + call.offset) % buffer.length)
                  = Sample(call.before, c, idx)

\* C3: every call of shift returns, and returns the buffer, whatever the
\* offset and the buffer.
ShiftReturns ==
    (call.op = "shift" /\ pc # "returned")
        ~> (Returned("shift") /\ result = buffer)

\* C4: resize to a length above the buffer's keeps the channel count and the
\* sample rate, keeps the samples, and pads every channel with zeros.
ResizeGrowPads ==
    (Returned("resize") /\ call.length > call.before.length) =>
        /\ result.length = call.length
        /\ result.numberOfChannels = call.before.numberOfChannels
        /\ result.sampleRate = call.before.sampleRate
        /\ \A c \in ChannelsOf(result) :
              /\ Len(result.data[c + 1]) = call.length
              /\ \A idx \in IndicesOf(result) :
                    Sample(result, c, idx) =
                        IF idx < call.before.length
                        THEN Sample(call.before, c, idx) ELSE 0

\* C5: resize to a length of at most the buffer's (its own length included)
\* returns exactly what slice(b, 0, n) returns.
ResizeShrinkIsSlice ==
    (Returned("resize") /\ call.length <= call.before.length) =>
        result = slice(call.before, 0, call.length)

\* The sum of the lengths of the first n arguments.
RECURSIVE LengthBefore(_, _)
LengthBefore(arguments, n) ==
    IF n = 0 THEN 0 ELSE LengthBefore(arguments, n - 1) + arguments[n].length

\* The largest of f[1], ..., f[n], and 0.
RECURSIVE Largest(_, _)
Largest(f, n) == IF n = 0 THEN 0 ELSE Max(Largest(f, n - 1), f[n])

\* C6: concat of two or more buffers returns a buffer as long as all of
\* them together, with the largest channel count and the largest sample
\* rate; in each channel c the k-th argument fills the region that starts
\* at the summed length of the arguments before it, with its channel c, or
\* with zeros when it has no channel c.
ConcatLaysOut ==
    Returned("concat") =>
        LET arguments == call.arguments
            n == Len(arguments)
        IN  /\ result.length = LengthBefore(arguments, n)
            /\ result.numberOfChannels =
                   Largest([k \in 1..n |-> arguments[k].numberOfChannels], n)
            /\ result.sampleRate =
                   Largest([k \in 1..n |-> arguments[k].sampleRate], n)
            /\ Len(result.data) = result.numberOfChannels
            /\ \A c \in ChannelsOf(result) :
                  /\ Len(result.data[c + 1]) = result.length
                  /\ \A k \in 1..n : \A idx \in IndicesOf(arguments[k]) :
                        Sample(result, c, LengthBefore(arguments, k - 1) + idx) =
                            IF c < arguments[k].numberOfChannels
                            THEN Sample(arguments[k], c, idx) ELSE 0
            /\ arguments = <<Mono(<<1, 2>>), Mono(<<3, 4, 5>>)>> =>
                  result = Mono(<<1, 2, 3, 4, 5>>)

\* Three buffers are concatenated, the middle one mono between two stereo
\* ones: its span in the second channel is zero between their samples.
ConcatWitness ==
    /\ Returned("concat")
    /\ Len(call.arguments) = 3
    /\ call.arguments[2].numberOfChannels = 1
    /\ call.arguments[2].data = <<<<1>>>>
    /\ call.arguments[1].sampleRate < call.arguments[3].sampleRate
    /\ result.data = <<<<1, 1, 1>>, <<1, 0, 1>>>>

\* What the specification calls equal buffers: same length, same channel
\* count, same samples.
SameContent(a, b) ==
    /\ a.length = b.length
    /\ a.numberOfChannels = b.numberOfChannels
    /\ a.data = b.data

\* C7: equal returns true exactly when every argument and the next have
\* the same length, the same channel count and the same samples; the
\* sample rate does not count.
EqualIffSameContent ==
    Returned("equal") =>
        (same <=> \A k \in 1..(Len(call.arguments) - 1) :
                     SameContent(call.arguments[k], call.arguments[k + 1]))

\* equal returns true for three non-empty stereo buffers of two sample rates.
EqualWitness ==
    /\ Returned("equal")
    /\ Len(call.arguments) = 3
    /\ same
    /\ call.arguments[1].numberOfChannels = 2
    /\ call.arguments[1].length > 0
    /\ call.arguments[1].sampleRate # call.arguments[3].sampleRate

\* C8: map leaves the buffer as it was and returns a buffer of the same
\* channel count, length and sample rate whose sample at (c, idx) is fn of
\* the buffer's sample there, c and idx: the samples fill leaves in a clone.
MapLeavesSource ==
    Returned("map") =>
        /\ buffer = call.before
        /\ SameShape(result, buffer)
        /\ Len(result.data) = buffer.numberOfChannels
        /\ result.sampleRate = buffer.sampleRate
        /\ \A c \in ChannelsOf(buffer) : \A idx \in IndicesOf(buffer) :
              Sample(result, c, idx) =
                  Apply(call.fn.name, Sample(buffer, c, idx), c, idx, <<>>)
        /\ result.data = fill(clone(call.before), call.fn).data

\* map has returned a stereo buffer that differs from its source.
MapWitness ==
    /\ Returned("map")
    /\ buffer.numberOfChannels = 2
    /\ buffer.length = MaxLen
    /\ call.fn.name = "index"
    /\ result.data # buffer.data
    /\ result.data[1] # result.data[2]

\* C9: shift by 0 < offset <= l moves every sample up by offset and leaves
\* the first offset samples as they were; shift by offset <= 0 moves every
\* sample down by -offset and zeroes the samples vacated at the end; the
\* channel count and the length stay.
ShiftMovesSamples ==
    Returned("shift") =>
        /\ SameShape(buffer, call.before)
        /\ \A c \in ChannelsOf(buffer) : \A j \in IndicesOf(buffer) :
              /\ (0 < call.offset /\ call.offset <= buffer.length) =>
                    Sample(buffer, c, j) =
                        IF j >= call.offset
                        THEN Sample(call.before, c, j - call.offset)
                        ELSE Sample(call.before, c, j)
              /\ call.offset <= 0 =>
                    Sample(buffer, c, j) =
                        IF j - call.offset < buffer.length
                        THEN Sample(call.before, c, j - call.offset)
                        ELSE 0

\* shift by 1 has returned with the first sample left in place and copied up.
ShiftWitness ==
    /\ Returned("shift")
    /\ call.offset = 1
    /\ call.before.data = <<<<1, 0, 0>>>>
    /\ buffer.data = <<<<1, 1, 0>>>>
    /\ result = buffer

\* C10: fill with a callable calls it once per channel and index, channels
\* ascending and indices ascending within a channel, with the value stored
\* there and the live channel (new samples below the index, old ones from
\* it on), and stores what it returns; with a constant every sample becomes
\* the constant; the buffer is returned with its channel count and length,
\* and nothing changes when it has no channel or no sample.
FillCallsInOrder ==
    Returned("fill") =>
        LET l == buffer.length
            old == call.before
        IN  /\ result = buffer
            /\ SameShape(buffer, old)
            /\ buffer.sampleRate = old.sampleRate
            /\ call.fn.isFn =>
                  /\ Len(calls) = buffer.numberOfChannels * l
                  /\ \A k \in 1..Len(calls) :
                        LET c == (k - 1) \div l
                            idx == (k - 1) % l
                        IN  /\ calls[k].channel = c
                            /\ calls[k].i = idx
                            /\ calls[k].value = Sample(old, c, idx)
                            /\ calls[k].data =
                                   [j \in 1..l |->
                                       IF j - 1 < idx THEN buffer.data[c + 1][j]
                                       ELSE old.data[c + 1][j]]
                            /\ Sample(buffer, c, idx) =
                                   Apply(call.fn.name, calls[k].value, c, idx,
                                         calls[k].data)
            /\ ~call.fn.isFn =>
                  /\ calls = <<>>
                  /\ \A c \in ChannelsOf(buffer) : \A idx \in IndicesOf(buffer) :
                        Sample(buffer, c, idx) = call.fn.value
            /\ (buffer.numberOfChannels = 0 \/ l = 0) => buffer = old

\* fill has called a producer that reads the live channel, which by then
\* differed from the channel fill was called on.
FillWitness ==
    /\ Returned("fill")
    /\ call.fn = Callable("prev")
    /\ buffer.numberOfChannels = 2
    /\ Len(calls) = 2 * MaxLen
    /\ calls[MaxLen + 3].data # call.before.data[2]
    /\ calls[MaxLen + 3].data # buffer.data[2]

====
